---- MODULE Spec2Model ----
(***************************************************************************)
(* TALON (talonQ.py): matching of a transcript's positions against the     *)
(* location (vertex) dict and of consecutive vertices against the edge     *)
(* dict, with novel vertices and edges minted from the run's counters.     *)
(*                                                                         *)
(* Python values are represented as follows.                               *)
(*   - a dict that is enumerated (location_dict) is the sequence of its    *)
(*     rows in insertion order; the key of a row is (chromosome, position) *)
(*   - a dict that is only indexed (edge_dict) is a function on its keys   *)
(*   - None is the record None                                             *)
(*   - an identifier is [kind, prefix, n]: kind "int" for an integer key   *)
(*     of a loaded database row, kind "str" for the string "%s-%d" built   *)
(*     from prefix and n                                                   *)
(*   - a distance is [kind, val]: kind "int" for an integer, kind "NA" for *)
(*     the string "NA"                                                     *)
(***************************************************************************)
EXTENDS Integers, Sequences, FiniteSets, TLC

VARIABLES
    location_dict,  \* make_location_dict's dict, rows in insertion order
    edge_dict,      \* make_edge_dict's dict
    run_info,       \* init_run_info's struct
    last,           \* the last call: its name, arguments and outcome
    vertex_log,     \* the rows create_vertex has returned, in call order, by caller
    edge_log,       \* the rows create_edge has returned, in call order, by caller
    first,          \* the first transcript built in the run and its path
    pending         \* resolvers run side by side: the lookups made and not yet acted on

vars == <<location_dict, edge_dict, run_info, last, vertex_log, edge_log, first, pending>>

----------------------------------------------------------------------------
(* Bounds and input sets *)

MaxLoaded == 1      \* rows loaded into location_dict at run start, at most
MaxIndex == 3       \* rows of location_dict before a lone permissive search, at most
MaxNewVertices == 2 \* vertices minted in one run, at most
MaxNewEdges == 2    \* edges minted in one run, at most
MaxLen == 3         \* positions of a transcript / vertices of a path, at most
MaxCounter == 1     \* counter values loaded at run start, at most

cutoff_5p == 500
cutoff_3p == 300

Chromosomes == {"chr1", "chr2"}
Positions == {93, 95, 97, 100}
\* positions of the transcripts of a whole run
RunPositions == {95, 97, 100}
\* keys a loaded or novel vertex may have
Keys == ({"chr1"} \X Positions) \cup {<<"chr2", 97>>}
RunKeys == ({"chr1"} \X RunPositions) \cup {<<"chr2", 97>>}
Strands == {"+", "-", "."}
PosTypes == {"start", "end", "middle"}
Cutoffs == {0, 2, 10}
EdgeTypes == {"exon", "intron"}

None == [none |-> TRUE]

Abs(x) == IF x < 0 THEN -x ELSE x

\* "%s-%d" % (prefix, n)
FormatID(prefix, n) == [kind |-> "str", prefix |-> prefix, n |-> n]
\* the integer primary key of a loaded row
IntID(n) == [kind |-> "int", prefix |-> "", n |-> n]

IntDist(d) == [kind |-> "int", val |-> d]
NADist == [kind |-> "NA", val |-> 0]

----------------------------------------------------------------------------
(* dict operations on location_dict *)

KeyOf(row) == <<row.chromosome, row.position>>

\* list(locations.keys())
DictKeys(d) == [i \in 1..Len(d) |-> KeyOf(d[i])]

\* key in locations
HasKey(d, key) == \E i \in 1..Len(d) : KeyOf(d[i]) = key

\* locations[key], for a key of the dict
GetItem(d, key) == d[CHOOSE i \in 1..Len(d) : KeyOf(d[i]) = key]

\* locations[key] = row : replaces in place, or appends a new key
SetItem(d, key, row) ==
    IF HasKey(d, key)
    THEN [i \in 1..Len(d) |-> IF KeyOf(d[i]) = key THEN row ELSE d[i]]
    ELSE Append(d, row)

----------------------------------------------------------------------------
(* Lookups *)

\* search_for_vertex_at_pos whose lookup always fails inside the try, so
\* that the bare except answers None for every key
search_for_vertex_at_pos_always_none(chromosome, position, ld) == None

\* search_for_vertex_at_pos: the row, or None when the key is missing
search_for_vertex_at_pos(chromosome, position, ld) ==
    LET query_key == <<chromosome, position>>
    IN  IF HasKey(ld, query_key) THEN GetItem(ld, query_key) ELSE None

\* search_for_edge that takes an edge between the two vertices in either
\* direction
search_for_edge_undirected(vertex_1, vertex_2, edge_type, ed) ==
    LET query_key == <<vertex_1, vertex_2, edge_type>>
        reverse_key == <<vertex_2, vertex_1, edge_type>>
    IN  IF query_key \in DOMAIN ed THEN ed[query_key]
        ELSE IF reverse_key \in DOMAIN ed THEN ed[reverse_key]
        ELSE None

\* search_for_edge whose lookup always fails inside the try, so that the
\* bare except answers None for every key
search_for_edge_always_none(vertex_1, vertex_2, edge_type, ed) == None

\* search_for_edge: the row, or None when the key is missing
search_for_edge(vertex_1, vertex_2, edge_type, ed) ==
    LET query_key == <<vertex_1, vertex_2, edge_type>>
    IN  IF query_key \in DOMAIN ed THEN ed[query_key] ELSE None

----------------------------------------------------------------------------
(* Creation. Each returns the new row with the structures it has changed. *)

\* create_vertex that does not add the new row to the dict
create_vertex_not_stored(chromosome, position, ri, ld) ==
    LET ri2 == [ri EXCEPT !.vertex = ri.vertex + 1]
        new_ID == FormatID(ri2.prefix, ri2.vertex)
        new_vertex == [location_ID |-> new_ID,
                       genome_build |-> ri2.build,
                       chromosome |-> chromosome,
                       position |-> position]
    IN  [row |-> new_vertex, run_info |-> ri2, location_dict |-> ld]

\* create_vertex that numbers the vertex from the counter without advancing it
create_vertex_stale_counter(chromosome, position, ri, ld) ==
    LET new_ID == FormatID(ri.prefix, ri.vertex + 1)
        new_vertex == [location_ID |-> new_ID,
                       genome_build |-> ri.build,
                       chromosome |-> chromosome,
                       position |-> position]
    IN  [row |-> new_vertex,
         run_info |-> ri,
         location_dict |-> SetItem(ld, <<chromosome, position>>, new_vertex)]

\* create_vertex that advances the counter a second time after numbering
\* the vertex
create_vertex_counter_twice(chromosome, position, ri, ld) ==
    LET ri2 == [ri EXCEPT !.vertex = ri.vertex + 1]
        new_ID == FormatID(ri2.prefix, ri2.vertex)
        new_vertex == [location_ID |-> new_ID,
                       genome_build |-> ri2.build,
                       chromosome |-> chromosome,
                       position |-> position]
    IN  [row |-> new_vertex,
         run_info |-> [ri2 EXCEPT !.vertex = ri2.vertex + 1],
         location_dict |-> SetItem(ld, <<chromosome, position>>, new_vertex)]

create_vertex(chromosome, position, ri, ld) ==
    LET ri2 == [ri EXCEPT !.vertex = ri.vertex + 1]
        new_ID == FormatID(ri2.prefix, ri2.vertex)
        new_vertex == [location_ID |-> new_ID,
                       genome_build |-> ri2.build,
                       chromosome |-> chromosome,
                       position |-> position]
    IN  [row |-> new_vertex,
         run_info |-> ri2,
         location_dict |-> SetItem(ld, <<chromosome, position>>, new_vertex)]

\* create_edge that numbers the edge from the counter without advancing it
create_edge_stale_counter(vertex_1, vertex_2, edge_type, strand, ed, ri) ==
    LET new_ID == FormatID(ri.prefix, ri.edge + 1)
        new_edge == [edge_ID |-> new_ID,
                     v1 |-> vertex_1,
                     v2 |-> vertex_2,
                     edge_type |-> edge_type,
                     strand |-> strand]
        key == <<vertex_1, vertex_2, edge_type>>
    IN  [row |-> new_edge,
         run_info |-> ri,
         edge_dict |-> [k \in (DOMAIN ed) \cup {key} |->
                            IF k = key THEN new_edge ELSE ed[k]]]

create_edge(vertex_1, vertex_2, edge_type, strand, ed, ri) ==
    LET ri2 == [ri EXCEPT !.edge = ri.edge + 1]
        new_ID == FormatID(ri2.prefix, ri2.edge)
        new_edge == [edge_ID |-> new_ID,
                     v1 |-> vertex_1,
                     v2 |-> vertex_2,
                     edge_type |-> edge_type,
                     strand |-> strand]
        key == <<vertex_1, vertex_2, edge_type>>
    IN  [row |-> new_edge,
         run_info |-> ri2,
         edge_dict |-> [k \in (DOMAIN ed) \cup {key} |->
                            IF k = key THEN new_edge ELSE ed[k]]]

----------------------------------------------------------------------------
(* match_all_transcript_vertices *)

\* the loop without its lookup: a vertex is created for every position
RECURSIVE StrictLoopAlwaysCreates(_, _, _)
StrictLoopAlwaysCreates(chromosome, positions, st) ==
    IF positions = <<>> THEN st
    ELSE
        LET made == create_vertex(chromosome, Head(positions), st.run_info,
                                  st.location_dict)
        IN  StrictLoopAlwaysCreates(chromosome, Tail(positions),
                [vertex_matches |-> Append(st.vertex_matches, made.row.location_ID),
                 location_dict |-> made.location_dict,
                 run_info |-> made.run_info,
                 created |-> Append(st.created, made.row)])

\* the loop over the positions left after the two pops; st carries
\* vertex_matches, the dict, the counters and the rows created so far
RECURSIVE StrictLoop(_, _, _)
StrictLoop(chromosome, positions, st) ==
    IF positions = <<>> THEN st
    ELSE
        LET position == Head(positions)
            found == search_for_vertex_at_pos(chromosome, position,
                                              st.location_dict)
            made == create_vertex(chromosome, position, st.run_info,
                                  st.location_dict)
            vertex_match == IF found = None THEN made.row ELSE found
            st2 == IF found = None
                   THEN [vertex_matches |->
                             Append(st.vertex_matches, vertex_match.location_ID),
                         location_dict |-> made.location_dict,
                         run_info |-> made.run_info,
                         created |-> Append(st.created, made.row)]
                   ELSE [st EXCEPT !.vertex_matches =
                             Append(st.vertex_matches, vertex_match.location_ID)]
        IN  StrictLoop(chromosome, Tail(positions), st2)

\* positions has at least two elements (pop(0) and pop(-1) succeed)
match_all_transcript_vertices(chromosome, positions, ld, ri) ==
    LET start == positions[1]
        end == positions[Len(positions)]
        rest == SubSeq(positions, 2, Len(positions) - 1)
    IN  StrictLoop(chromosome, rest,
                   [vertex_matches |-> <<>>,
                    location_dict |-> ld,
                    run_info |-> ri,
                    created |-> <<>>])

----------------------------------------------------------------------------
(* permissive_vertex_search *)

\* the filter with the junction itself allowed
CandidateKeysInclusive(chromosome, position, strand, sj_pos, pos_type, locations, cutoff) ==
    IF (strand = "+" /\ pos_type = "start") \/ (strand = "-" /\ pos_type = "end")
    THEN SelectSeq(DictKeys(locations),
                   LAMBDA t : t[1] = chromosome
                              /\ Abs(t[2] - position) <= cutoff
                              /\ t[2] <= sj_pos)
    ELSE SelectSeq(DictKeys(locations),
                   LAMBDA t : t[1] = chromosome
                              /\ Abs(t[2] - position) <= cutoff
                              /\ t[2] >= sj_pos)

\* the filter over list(locations.keys())
CandidateKeys(chromosome, position, strand, sj_pos, pos_type, locations, cutoff) ==
    IF (strand = "+" /\ pos_type = "start") \/ (strand = "-" /\ pos_type = "end")
    THEN SelectSeq(DictKeys(locations),
                   LAMBDA t : t[1] = chromosome
                              /\ Abs(t[2] - position) <= cutoff
                              /\ t[2] < sj_pos)
    ELSE SelectSeq(DictKeys(locations),
                   LAMBDA t : t[1] = chromosome
                              /\ Abs(t[2] - position) <= cutoff
                              /\ t[2] > sj_pos)

\* dist of one candidate, taken as on the "+" strand whatever the strand
CandidateDistForward(candidate_match, position, strand) ==
    candidate_match[2] - position

\* dist of one candidate
CandidateDist(candidate_match, position, strand) ==
    IF strand = "+" THEN candidate_match[2] - position
    ELSE position - candidate_match[2]

\* the loop with a strict comparison: of candidates at the same distance
\* the first one is kept
RECURSIVE ClosestLoopFirstKept(_, _, _, _, _)
ClosestLoopFirstKept(location_keys, position, strand, locations, acc) ==
    IF location_keys = <<>> THEN acc
    ELSE
        LET candidate_match == Head(location_keys)
            dist == CandidateDist(candidate_match, position, strand)
            acc2 == IF Abs(dist) < Abs(acc.min_dist)
                    THEN [min_dist |-> dist,
                          closest |-> GetItem(locations, candidate_match).location_ID]
                    ELSE acc
        IN  ClosestLoopFirstKept(Tail(location_keys), position, strand, locations, acc2)

\* the loop over location_keys; acc is [min_dist, closest]
RECURSIVE ClosestLoop(_, _, _, _, _)
ClosestLoop(location_keys, position, strand, locations, acc) ==
    IF location_keys = <<>> THEN acc
    ELSE
        LET candidate_match == Head(location_keys)
            dist == CandidateDist(candidate_match, position, strand)
            acc2 == IF Abs(dist) <= Abs(acc.min_dist)
                    THEN [min_dist |-> dist,
                          closest |-> GetItem(locations, candidate_match).location_ID]
                    ELSE acc
        IN  ClosestLoop(Tail(location_keys), position, strand, locations, acc2)

\* the outcome: raised, or the returned pair (match, dist), with the dict,
\* the counters and the rows created
permissive_vertex_search(chromosome, position, strand, sj_pos, pos_type, locations, cutoff, ri) ==
    LET unchanged == [location_dict |-> locations, run_info |-> ri,
                      created |-> <<>>]
    IN
    IF HasKey(locations, <<chromosome, position>>)
    THEN [raised |-> "no",
          match |-> GetItem(locations, <<chromosome, position>>).location_ID,
          dist |-> IntDist(0)] @@ unchanged
    ELSE IF pos_type # "start" /\ pos_type # "end"
    THEN [raised |-> "ValueError", match |-> None, dist |-> NADist] @@ unchanged
    ELSE IF strand # "+" /\ strand # "-"
    THEN [raised |-> "ValueError", match |-> None, dist |-> NADist] @@ unchanged
    ELSE
        LET location_keys == CandidateKeys(chromosome, position, strand, sj_pos,
                                           pos_type, locations, cutoff)
            acc == ClosestLoop(location_keys, position, strand, locations,
                               [min_dist |-> cutoff * 2, closest |-> None])
            made == create_vertex(chromosome, position, ri, locations)
        IN  IF acc.closest = None
            THEN [raised |-> "no",
                  match |-> made.row.location_ID,
                  dist |-> NADist,
                  location_dict |-> made.location_dict,
                  run_info |-> made.run_info,
                  created |-> <<made.row>>]
            ELSE [raised |-> "no",
                  match |-> acc.closest,
                  dist |-> IntDist(acc.min_dist)] @@ unchanged

----------------------------------------------------------------------------
(* match_all_transcript_edges *)

\* edge_type of the pair that starts at index_1 (0-based), a 1-based count
\* of the pairs taken for the index
EdgeTypeAtOneBased(index_1) == IF index_1 % 2 # 0 THEN "exon" ELSE "intron"

\* edge_type of the pair that starts at index_1 (0-based)
EdgeTypeAt(index_1) == IF index_1 % 2 # 0 THEN "intron" ELSE "exon"

\* the loop over index_1 in range(0, len(vertices) - 1); index_1 is 0-based
RECURSIVE EdgeLoop(_, _, _, _)
EdgeLoop(vertices, strand, index_1, st) ==
    IF index_1 >= Len(vertices) - 1 THEN st
    ELSE
        LET index_2 == index_1 + 1
            edge_type == EdgeTypeAt(index_1)
            vertex_1 == vertices[index_1 + 1]
            vertex_2 == vertices[index_2 + 1]
            found == search_for_edge(vertex_1, vertex_2, edge_type, st.edge_dict)
            made == create_edge(vertex_1, vertex_2, edge_type, strand,
                                st.edge_dict, st.run_info)
            edge_match == IF found = None THEN made.row ELSE found
            st2 == IF found = None
                   THEN [edge_matches |-> Append(st.edge_matches, edge_match.edge_ID),
                         edge_dict |-> made.edge_dict,
                         run_info |-> made.run_info,
                         created |-> Append(st.created, made.row)]
                   ELSE [st EXCEPT !.edge_matches =
                             Append(st.edge_matches, edge_match.edge_ID)]
        IN  EdgeLoop(vertices, strand, index_1 + 1, st2)

match_all_transcript_edges(vertices, strand, ed, ri) ==
    EdgeLoop(vertices, strand, 0,
             [edge_matches |-> <<>>,
              edge_dict |-> ed,
              run_info |-> ri,
              created |-> <<>>])

----------------------------------------------------------------------------
(* The state after main's preparation (init_run_info, make_location_dict, *)
(* make_edge_dict): loaded rows carry the database's integer keys.         *)

\* sequences of distinct elements of S, of length n
RECURSIVE Arrangements(_, _)
Arrangements(S, n) ==
    IF n = 0 THEN {<<>>}
    ELSE UNION {{Append(a, x) : x \in S \ {a[i] : i \in 1..Len(a)}}
                : a \in Arrangements(S, n - 1)}

\* sequences over S of length lo..hi
SeqsOf(S, lo, hi) == UNION {[1..n -> S] : n \in lo..hi}

\* the rows make_location_dict loads for the keys ks, one row per key
LoadedRows(ks) ==
    [i \in 1..Len(ks) |-> [location_ID |-> IntID(10 + i),
                           genome_build |-> "hg38",
                           chromosome |-> ks[i][1],
                           position |-> ks[i][2]]]

LoadedIndexes(keys, n) ==
    {LoadedRows(ks) : ks \in UNION {Arrangements(keys, k) : k \in 0..n}}

\* the identifiers of the rows of the location dict
VertexIDs(ld) == {ld[i].location_ID : i \in 1..Len(ld)}

\* one row as make_edge_dict loads it
LoadedEdge(v1, v2, edge_type) ==
    [edge_ID |-> IntID(21), v1 |-> v1, v2 |-> v2,
     edge_type |-> edge_type, strand |-> "+"]

\* the edge dicts make_edge_dict may load over the vertices vs: none or one row
LoadedEdgeDicts(vs) ==
    {<<>>} \cup {[k \in {<<v1, v2, t>>} |-> LoadedEdge(v1, v2, t)]
                 : v1 \in vs, v2 \in vs, t \in EdgeTypes}

InitRunInfo(v, e) ==
    [build |-> "hg38", prefix |-> "TALON",
     cutoff_5p |-> cutoff_5p, cutoff_3p |-> cutoff_3p,
     vertex |-> v, edge |-> e]

InitWith(indexes, edge_dicts, vertex_counts, edge_counts) ==
    /\ location_dict \in indexes
    /\ edge_dict \in edge_dicts
    /\ run_info \in {InitRunInfo(v, e) : v \in vertex_counts, e \in edge_counts}
    /\ last = [op |-> "init", args |-> <<>>, out |-> <<>>]
    /\ vertex_log = <<>>
    /\ edge_log = <<>>
    /\ first = None
    /\ pending = {}

----------------------------------------------------------------------------
(* One action per call *)

\* log entries for the rows a call has created
Logged(op, rows) == [i \in 1..Len(rows) |-> [by |-> op, row |-> rows[i]]]

SearchForVertexAtPos(chromosome, position) ==
    /\ last' = [op |-> "search_for_vertex_at_pos",
                args |-> [chromosome |-> chromosome, position |-> position],
                out |-> [ret |-> search_for_vertex_at_pos(chromosome, position,
                                                          location_dict)]]
    /\ UNCHANGED <<location_dict, edge_dict, run_info, vertex_log, edge_log, first, pending>>

SearchForEdge(vertex_1, vertex_2, edge_type) ==
    /\ last' = [op |-> "search_for_edge",
                args |-> [vertex_1 |-> vertex_1, vertex_2 |-> vertex_2,
                          edge_type |-> edge_type],
                out |-> [ret |-> search_for_edge(vertex_1, vertex_2, edge_type,
                                                 edge_dict)]]
    /\ UNCHANGED <<location_dict, edge_dict, run_info, vertex_log, edge_log, first, pending>>

MatchAllTranscriptVertices(chromosome, positions) ==
    /\ Len(positions) >= 2
    /\ \E r \in {match_all_transcript_vertices(chromosome, positions,
                                              location_dict, run_info)} :
        /\ r.created = <<>> \/ Len(vertex_log) + Len(r.created) <= MaxNewVertices
        /\ location_dict' = r.location_dict
        /\ run_info' = r.run_info
        /\ vertex_log' = vertex_log \o Logged("match_all_transcript_vertices", r.created)
        /\ last' = [op |-> "match_all_transcript_vertices",
                    args |-> [chromosome |-> chromosome, positions |-> positions],
                    out |-> [vertex_matches |-> r.vertex_matches,
                            created |-> r.created]]
        /\ UNCHANGED <<edge_dict, edge_log, first, pending>>

PermissiveVertexSearch(chromosome, position, strand, sj_pos, pos_type, cutoff) ==
    \E r \in {permissive_vertex_search(chromosome, position, strand, sj_pos,
                                      pos_type, location_dict, cutoff, run_info)} :
        /\ r.created = <<>> \/ Len(vertex_log) + Len(r.created) <= MaxNewVertices
        /\ location_dict' = r.location_dict
        /\ run_info' = r.run_info
        /\ vertex_log' = vertex_log \o Logged("permissive_vertex_search", r.created)
        /\ last' = [op |-> "permissive_vertex_search",
                    args |-> [chromosome |-> chromosome, position |-> position,
                              strand |-> strand, sj_pos |-> sj_pos,
                              pos_type |-> pos_type, cutoff |-> cutoff],
                    out |-> [raised |-> r.raised, match |-> r.match,
                             dist |-> r.dist, created |-> r.created]]
        /\ UNCHANGED <<edge_dict, edge_log, first, pending>>

MatchAllTranscriptEdges(vertices, strand) ==
    \E r \in {match_all_transcript_edges(vertices, strand, edge_dict, run_info)} :
        /\ r.created = <<>> \/ Len(edge_log) + Len(r.created) <= MaxNewEdges
        /\ edge_dict' = r.edge_dict
        /\ run_info' = r.run_info
        /\ edge_log' = edge_log \o Logged("match_all_transcript_edges", r.created)
        /\ last' = [op |-> "match_all_transcript_edges",
                    args |-> [vertices |-> vertices, strand |-> strand],
                    out |-> [edge_matches |-> r.edge_matches,
                            created |-> r.created]]
        /\ UNCHANGED <<location_dict, vertex_log, first, pending>>

\* main, after its preparation: the call on the fixed vertex list
MainVertexIDs == [i \in 1..6 |-> IntID(10 + i)]

Main ==
    \E r \in {match_all_transcript_edges(MainVertexIDs, "+", edge_dict, run_info)} :
        /\ last.op = "init"
        /\ edge_dict' = r.edge_dict
        /\ run_info' = r.run_info
        /\ edge_log' = edge_log \o Logged("main", r.created)
        /\ last' = [op |-> "main",
                    args |-> [vertices |-> MainVertexIDs, strand |-> "+"],
                    out |-> [edge_matches |-> r.edge_matches,
                            created |-> r.created]]
        /\ UNCHANGED <<location_dict, vertex_log, first, pending>>

----------------------------------------------------------------------------
(* The transcript path builder: the termini by permissive_vertex_search   *)
(* with the run's cutoffs and the adjoining position as the junction, the  *)
(* internal positions by the strict loop, the path by                      *)
(* match_all_transcript_edges over the three lists put back in order.      *)

BuildTranscript(chromosome, positions, strand) ==
    /\ Len(positions) >= 2
    /\ \E s \in {permissive_vertex_search(chromosome, positions[1], strand,
                     positions[2], "start", location_dict,
                     run_info.cutoff_5p, run_info)} :
       \E e \in {permissive_vertex_search(chromosome, positions[Len(positions)],
                     strand, positions[Len(positions) - 1], "end",
                     s.location_dict, run_info.cutoff_3p, s.run_info)} :
       \E m \in {StrictLoop(chromosome,
                     SubSeq(positions, 2, Len(positions) - 1),
                     [vertex_matches |-> <<>>,
                      location_dict |-> e.location_dict,
                      run_info |-> e.run_info,
                      created |-> <<>>])} :
       \E vertices \in {<<s.match>> \o m.vertex_matches \o <<e.match>>} :
       \E p \in {match_all_transcript_edges(vertices, strand, edge_dict,
                                            m.run_info)} :
       \E created \in {s.created \o e.created \o m.created} :
       \E call \in {[chromosome |-> chromosome, positions |-> positions,
                     strand |-> strand]} :
          /\ created = <<>> \/ Len(vertex_log) + Len(created) <= MaxNewVertices
          /\ p.created = <<>> \/ Len(edge_log) + Len(p.created) <= MaxNewEdges
          /\ location_dict' = m.location_dict
          /\ edge_dict' = p.edge_dict
          /\ run_info' = p.run_info
          /\ vertex_log' = vertex_log \o Logged("build_transcript", created)
          /\ edge_log' = edge_log \o Logged("build_transcript", p.created)
          /\ last' = [op |-> "build_transcript", args |-> call,
                      out |-> [vertices |-> vertices,
                               edge_matches |-> p.edge_matches,
                               created_vertices |-> created,
                               created_edges |-> p.created]]
          /\ first' = IF first = None
                      THEN [args |-> call, path |-> p.edge_matches]
                      ELSE first
          /\ UNCHANGED pending

----------------------------------------------------------------------------
(* Specifications *)

\* strictly ascending or strictly descending position lists: a transcript's
\* positions in 5' to 3' order on either strand
Monotonic(ps) ==
    \/ \A i \in 1..(Len(ps) - 1) : ps[i] < ps[i + 1]
    \/ \A i \in 1..(Len(ps) - 1) : ps[i] > ps[i + 1]

Transcripts == {ps \in SeqsOf(Positions, 2, MaxLen) : Monotonic(ps)}

\* the strand of a transcript whose positions are in 5' to 3' order
StrandOf(ps) == IF ps[1] < ps[Len(ps)] THEN "+" ELSE "-"

\* a run of calls on the vertex side: lookups, strict matching and the
\* permissive search of a 5' end with the run's cutoff
InitVertex ==
    InitWith(LoadedIndexes(Keys, MaxLoaded), {<<>>}, {0, MaxCounter}, {0})

NextVertex ==
    \/ \E c \in Chromosomes, p \in Positions : SearchForVertexAtPos(c, p)
    \/ \E ps \in Transcripts : MatchAllTranscriptVertices("chr1", ps)
    \/ \E p \in Positions, s \in {"+", "-"} : \E sj \in Positions \ {p} :
          PermissiveVertexSearch("chr1", p, s, sj, "start", run_info.cutoff_5p)

SpecVertex == InitVertex /\ [][NextVertex]_vars

\* a single call of permissive_vertex_search, over every loaded index and
\* every argument
InitSearch ==
    InitWith(LoadedIndexes(Keys, MaxIndex), {<<>>}, 0..MaxCounter, {0})

NextSearch ==
    /\ last.op = "init"
    /\ \E c \in Chromosomes, p \in Positions, sj \in Positions,
          s \in Strands, t \in PosTypes, cutoff \in Cutoffs :
          PermissiveVertexSearch(c, p, s, sj, t, cutoff)

SpecSearch == InitSearch /\ [][NextSearch]_vars

\* a run of calls on the edge side, over two loaded vertices; main's own
\* call comes first when it is made
EdgeVertexRows == LoadedRows(<<<<"chr1", 93>>, <<"chr1", 97>>>>)
EdgeVertexIDs == VertexIDs(EdgeVertexRows)

InitEdge ==
    InitWith({EdgeVertexRows}, LoadedEdgeDicts(EdgeVertexIDs), {0}, 0..MaxCounter)

NextEdge ==
    \/ \E v1 \in EdgeVertexIDs, v2 \in EdgeVertexIDs, t \in EdgeTypes :
          SearchForEdge(v1, v2, t)
    \/ \E vs \in SeqsOf(EdgeVertexIDs, 0, MaxLen) :
          MatchAllTranscriptEdges(vs, "+")
    \/ Main

SpecEdge == InitEdge /\ [][NextEdge]_vars

\* a run of transcripts: each through the path builder, or through
\* match_all_transcript_vertices with its result handed to
\* match_all_transcript_edges
InitRun ==
    InitWith(LoadedIndexes(RunKeys, MaxLoaded), {<<>>}, 0..MaxCounter, {0, MaxCounter})

RunTranscripts == {ps \in Transcripts : \A i \in 1..Len(ps) : ps[i] \in RunPositions}

NextRun ==
    \/ \E ps \in RunTranscripts : BuildTranscript("chr1", ps, StrandOf(ps))
    \/ \E ps \in RunTranscripts : MatchAllTranscriptVertices("chr1", ps)
    \/ /\ last.op = "match_all_transcript_vertices"
       /\ MatchAllTranscriptEdges(last.out.vertex_matches,
                                  StrandOf(last.args.positions))

Spec == InitRun /\ [][NextRun]_vars

----------------------------------------------------------------------------
(* Observations the properties below are stated with. They read the rows   *)
(* themselves, never the lookups above.                                    *)

\* the identifiers of the rows of ld that lie at (chromosome, position)
StoredAt(ld, chromosome, position) ==
    {ld[i].location_ID : i \in {j \in 1..Len(ld) :
        ld[j].chromosome = chromosome /\ ld[j].position = position}}

\* the rows of an edge dict
EdgeRows(ed) == {ed[k] : k \in DOMAIN ed}

\* the rows of ed that carry the identifier id
EdgesNamed(ed, id) == {r \in EdgeRows(ed) : r.edge_ID = id}

\* the positions of a transcript between its two ends
Internal(ps) == SubSeq(ps, 2, Len(ps) - 1)

\* segment type of the i-th pair of a path, counting from 0
Alternating(i) == IF i % 2 = 0 THEN "exon" ELSE "intron"

----------------------------------------------------------------------------
(* C1: a transcript built a second time in the run, termini by the         *)
(* permissive search, internal positions strictly, edges by                *)
(* match_all_transcript_edges, gets the edge path it got the first time,   *)
(* whatever was processed in between.                                      *)
C1_RoundTrip ==
    (last.op = "build_transcript" /\ first # None /\ last.args = first.args)
        => last.out.edge_matches = first.path

----------------------------------------------------------------------------
(* C2: strict resolution (search_for_vertex_at_pos, create_vertex on a     *)
(* miss) returns for each internal position the identifier of the vertex   *)
(* stored at exactly that position; a position that already has a vertex   *)
(* keeps its identifier, so two resolutions of it agree; the vertex        *)
(* counter advances once for each position that had no vertex, and not at  *)
(* all for one that had.                                                   *)
C2_StrictStep ==
    last'.op = "match_all_transcript_vertices" =>
        LET c == last'.args.chromosome
            inner == Internal(last'.args.positions)
            ids == last'.out.vertex_matches
            fresh == {inner[i] : i \in {j \in 1..Len(inner) :
                         StoredAt(location_dict, c, inner[j]) = {}}}
        IN  /\ Len(ids) = Len(inner)
            /\ \A i \in 1..Len(inner) :
                  /\ StoredAt(location_dict', c, inner[i]) = {ids[i]}
                  /\ StoredAt(location_dict, c, inner[i]) \subseteq {ids[i]}
            /\ run_info'.vertex = run_info.vertex + Cardinality(fresh)

C2_KeptIdentifier ==
    \A key \in Keys :
        StoredAt(location_dict, key[1], key[2]) # {} =>
            StoredAt(location_dict', key[1], key[2])
                = StoredAt(location_dict, key[1], key[2])

C2_StrictResolutionIdempotent == [][C2_StrictStep /\ C2_KeptIdentifier]_vars

\* a strict resolution that returns, without creating anything, the vertex
\* an earlier strict resolution created
C2_Witness ==
    /\ last.op = "match_all_transcript_vertices"
    /\ Len(last.out.vertex_matches) >= 1
    /\ last.out.created = <<>>
    /\ \E i \in 1..Len(vertex_log) :
          /\ vertex_log[i].by = "match_all_transcript_vertices"
          /\ vertex_log[i].row.location_ID = last.out.vertex_matches[1]
          /\ vertex_log[i].row.position = last.args.positions[2]
    /\ run_info.vertex \in {Len(vertex_log), MaxCounter + Len(vertex_log)}

----------------------------------------------------------------------------
(* C3: match_all_transcript_vertices returns one identifier per input      *)
(* position, in the input's order: the first and last for the two termini, *)
(* between them the identifiers of the vertices stored at the internal     *)
(* positions.                                                              *)
C3_OneVertexPerPosition ==
    last.op = "match_all_transcript_vertices" =>
        LET c == last.args.chromosome
            ps == last.args.positions
            ids == last.out.vertex_matches
        IN  /\ Len(ids) = Len(ps)
            /\ \A i \in 2..(Len(ps) - 1) :
                  StoredAt(location_dict, c, ps[i]) = {ids[i]}

----------------------------------------------------------------------------
(* C4: for n >= 2 vertices match_all_transcript_edges returns n-1 edge     *)
(* identifiers; the i-th, from 0, names the edge of the pair               *)
(* (vertices[i], vertices[i+1]), of type exon for even i and intron for    *)
(* odd i, whatever the edge dict held.                                     *)
C4_AlternatingPath ==
    (last.op \in {"match_all_transcript_edges", "main"}
     /\ Len(last.args.vertices) >= 2) =>
        LET vs == last.args.vertices
            ids == last.out.edge_matches
        IN  /\ Len(ids) = Len(vs) - 1
            /\ \A i \in 0..(Len(vs) - 2) :
                  /\ EdgesNamed(edge_dict, ids[i + 1]) # {}
                  /\ \A r \in EdgesNamed(edge_dict, ids[i + 1]) :
                        /\ r.v1 = vs[i + 1]
                        /\ r.v2 = vs[i + 2]
                        /\ r.edge_type = Alternating(i)

\* main's six vertices: exon, intron, exon, intron, exon
C4_Witness ==
    /\ last.op = "main"
    /\ Len(last.args.vertices) = 6
    /\ Len(last.out.edge_matches) = 5
    /\ [i \in 1..5 |-> (CHOOSE r \in EdgesNamed(edge_dict, last.out.edge_matches[i])
                           : TRUE).edge_type]
           = <<"exon", "intron", "exon", "intron", "exon">>

----------------------------------------------------------------------------
(* C5: a 2-position transcript through match_all_transcript_vertices and   *)
(* then match_all_transcript_edges gives exactly one edge, of type exon,   *)
(* between its two resolved termini.                                       *)
C5_SingleExonStep ==
    (/\ last.op = "match_all_transcript_vertices"
     /\ Len(last.args.positions) = 2
     /\ last'.op = "match_all_transcript_edges"
     /\ last'.args.vertices = last.out.vertex_matches) =>
        /\ Len(last'.out.edge_matches) = 1
        /\ \A r \in EdgesNamed(edge_dict', last'.out.edge_matches[1]) :
              r.edge_type = "exon"

C5_SingleExon == [][C5_SingleExonStep]_vars

----------------------------------------------------------------------------
(* permissive_vertex_search, as the properties below read a call: the    *)
(* arguments a of the call and the dict ld it was made on.                 *)

ValidCall(a) == a.strand \in {"+", "-"} /\ a.pos_type \in {"start", "end"}

\* the end is one whose candidates lie before the junction
BeforeJunction(a) ==
    \/ a.strand = "+" /\ a.pos_type = "start"
    \/ a.strand = "-" /\ a.pos_type = "end"

\* position pos is strictly on the side of the junction the end allows
CorrectSide(a, pos) ==
    IF BeforeJunction(a) THEN pos < a.sj_pos ELSE pos > a.sj_pos

\* the rows of ld that are candidates of the call
Candidates(ld, a) ==
    {i \in 1..Len(ld) : /\ ld[i].chromosome = a.chromosome
                        /\ Abs(ld[i].position - a.position) <= a.cutoff
                        /\ CorrectSide(a, ld[i].position)}

SignedDistance(a, pos) ==
    IF a.strand = "+" THEN pos - a.position ELSE a.position - pos

\* the step is a call of permissive_vertex_search
SearchStep == last.op = "init" /\ last'.op = "permissive_vertex_search"

----------------------------------------------------------------------------
(* C6: with no vertex at the query position and at least one candidate,    *)
(* permissive_vertex_search returns a candidate of minimal absolute        *)
(* distance to the query, with its signed distance (candidate - query on   *)
(* "+", query - candidate on "-"), a non-zero integer of magnitude at most *)
(* the cutoff.                                                             *)
C6_ClosestStep ==
    (/\ SearchStep
     /\ ValidCall(last'.args)
     /\ StoredAt(location_dict, last'.args.chromosome, last'.args.position) = {}
     /\ Candidates(location_dict, last'.args) # {}) =>
        LET a == last'.args
            cands == Candidates(location_dict, a)
        IN  /\ last'.out.raised = "no"
            /\ last'.out.dist.kind = "int"
            /\ last'.out.dist.val # 0
            /\ Abs(last'.out.dist.val) <= a.cutoff
            /\ \E i \in cands :
                  /\ last'.out.match = location_dict[i].location_ID
                  /\ last'.out.dist.val
                         = SignedDistance(a, location_dict[i].position)
                  /\ \A j \in cands :
                        Abs(location_dict[i].position - a.position)
                            <= Abs(location_dict[j].position - a.position)
            /\ location_dict' = location_dict
            /\ run_info' = run_info

C6_ClosestCandidate == [][C6_ClosestStep]_vars

\* query 95, a vertex at 97, junction 100, cutoff 10, "+", "start": the
\* vertex at 97 at distance +2
C6_Witness ==
    /\ last.op = "permissive_vertex_search"
    /\ last.args = [chromosome |-> "chr1", position |-> 95, strand |-> "+",
                    sj_pos |-> 100, pos_type |-> "start", cutoff |-> 10]
    /\ StoredAt(location_dict, "chr1", 95) = {}
    /\ StoredAt(location_dict, "chr1", 97) = {last.out.match}
    /\ last.out.dist = IntDist(2)

----------------------------------------------------------------------------
(* C7: with no vertex at the query position and no candidate,              *)
(* permissive_vertex_search creates exactly one vertex, keyed at the       *)
(* query's chromosome and position, returns its identifier and reports     *)
(* the distance "NA".                                                      *)
C7_CreateStep ==
    (/\ SearchStep
     /\ ValidCall(last'.args)
     /\ StoredAt(location_dict, last'.args.chromosome, last'.args.position) = {}
     /\ Candidates(location_dict, last'.args) = {}) =>
        LET a == last'.args
            n == Len(location_dict)
        IN  /\ last'.out.raised = "no"
            /\ last'.out.dist = NADist
            /\ Len(location_dict') = n + 1
            /\ SubSeq(location_dict', 1, n) = location_dict
            /\ location_dict'[n + 1].chromosome = a.chromosome
            /\ location_dict'[n + 1].position = a.position
            /\ location_dict'[n + 1].location_ID = last'.out.match
            /\ StoredAt(location_dict', a.chromosome, a.position)
                   = {last'.out.match}
            /\ last'.out.match \notin VertexIDs(location_dict)
            /\ run_info'.vertex = run_info.vertex + 1

----------------------------------------------------------------------------
(* C8: permissive_vertex_search never returns a vertex that was in the     *)
(* dict and lies at or past the junction, for every query position and     *)
(* every dict.                                                             *)
C8_NeverPastJunctionStep ==
    (SearchStep /\ ValidCall(last'.args) /\ last'.out.raised = "no") =>
        \A i \in 1..Len(location_dict) :
            (/\ location_dict[i].chromosome = last'.args.chromosome
             /\ location_dict[i].location_ID = last'.out.match)
                => CorrectSide(last'.args, location_dict[i].position)

C8_OnlyExactPastJunctionStep ==
    (SearchStep /\ ValidCall(last'.args) /\ last'.out.raised = "no") =>
        \A i \in 1..Len(location_dict) :
            (/\ location_dict[i].chromosome = last'.args.chromosome
             /\ location_dict[i].location_ID = last'.out.match
             /\ ~CorrectSide(last'.args, location_dict[i].position))
                => /\ location_dict[i].position = last'.args.position
                   /\ last'.out.dist = IntDist(0)

----------------------------------------------------------------------------
(* C9: an edge answers only the lookup of its own (v1, v2, type):          *)
(* search_for_edge returns a row of exactly the key asked for, or None     *)
(* when no such row was loaded or created; the identifier a path gets for  *)
(* a pair names an edge from the first vertex of the pair to the second;   *)
(* rows of different keys carry different identifiers.                     *)
C9_DirectedTypedLookup ==
    /\ last.op = "search_for_edge" =>
          LET hits == {r \in EdgeRows(edge_dict) :
                          /\ r.v1 = last.args.vertex_1
                          /\ r.v2 = last.args.vertex_2
                          /\ r.edge_type = last.args.edge_type}
          IN  IF hits = {} THEN last.out.ret = None ELSE last.out.ret \in hits
    /\ last.op \in {"match_all_transcript_edges", "main"} =>
          \A i \in 1..Len(last.out.edge_matches) :
              \A r \in EdgesNamed(edge_dict, last.out.edge_matches[i]) :
                  r.v1 = last.args.vertices[i] /\ r.v2 = last.args.vertices[i + 1]
    /\ \A r1 \in EdgeRows(edge_dict), r2 \in EdgeRows(edge_dict) :
          r1.edge_ID = r2.edge_ID => r1 = r2

\* (A, B, exon) was created, and resolving (B, A) creates a second edge
C9_Witness ==
    /\ last.op = "match_all_transcript_edges"
    /\ Len(last.args.vertices) = 2
    /\ last.args.vertices[1] # last.args.vertices[2]
    /\ Len(last.out.created) = 1
    /\ \E i \in 1..Len(edge_log) :
          /\ edge_log[i].row.v1 = last.args.vertices[2]
          /\ edge_log[i].row.v2 = last.args.vertices[1]
          /\ edge_log[i].row.edge_type = "exon"
          /\ edge_log[i].row.edge_ID # last.out.edge_matches[1]

----------------------------------------------------------------------------
(* C10: over a run the identifiers minted for one kind are the run's       *)
(* prefix with counter values that go up by one from each minting to the   *)
(* next, the last being the counter's value; none is issued twice.         *)
MintedVertexIDs == [i \in 1..Len(vertex_log) |-> vertex_log[i].row.location_ID]
MintedEdgeIDs == [i \in 1..Len(edge_log) |-> edge_log[i].row.edge_ID]

Consecutive(ids, counter) ==
    /\ \A i \in 1..Len(ids) : ids[i].kind = "str" /\ ids[i].prefix = run_info.prefix
    /\ \A i \in 1..(Len(ids) - 1) : ids[i + 1].n = ids[i].n + 1
    /\ \A i \in 1..Len(ids), j \in 1..Len(ids) : i # j => ids[i] # ids[j]
    /\ ids # <<>> => ids[Len(ids)].n = counter

C10_MonotonicIdentifiers ==
    /\ Consecutive(MintedVertexIDs, run_info.vertex)
    /\ Consecutive(MintedEdgeIDs, run_info.edge)

\* two vertices and two edges minted, and a transcript built afterwards
\* entirely from vertices and edges of earlier transcripts
C10_Witness ==
    /\ Len(vertex_log) >= 2
    /\ Len(edge_log) >= 2
    /\ last.op = "build_transcript"
    /\ Len(last.out.edge_matches) >= 1
    /\ last.out.created_vertices = <<>>
    /\ last.out.created_edges = <<>>

----------------------------------------------------------------------------
(* C11: a call of permissive_vertex_search whose pos_type is neither       *)
(* "start" nor "end", or whose strand is neither "+" nor "-", raises,      *)
(* whatever the dict holds, a vertex at exactly the query position         *)
(* included, and leaves the dict and the counters as they were.            *)
C11_InvalidArgumentsRaiseStep ==
    (SearchStep /\ ~ValidCall(last'.args)) =>
        /\ last'.out.raised = "ValueError"
        /\ location_dict' = location_dict
        /\ run_info' = run_info

C11_InvalidArgumentsRaise == [][C11_InvalidArgumentsRaiseStep]_vars

----------------------------------------------------------------------------
(* A run of the resolvers and the lookups in any order, on one shared      *)
(* location dict, edge dict and pair of counters: the lookups, strict      *)
(* matching, the permissive search of either end, and the edges of a pair  *)
(* of vertices the dict holds.                                             *)

\* the pairs of vertices that are neighbours in the dict's order, either way
NeighbourPairs(ld) ==
    {<<ld[i].location_ID, ld[j].location_ID>> :
        <<i, j>> \in {ij \in (1..Len(ld)) \X (1..Len(ld)) :
                        ij[1] - ij[2] \in {-1, 1}}}

InitResolve ==
    InitWith(LoadedIndexes({"chr1"} \X RunPositions, MaxLoaded), {<<>>},
             {0, MaxCounter}, {0})

NextResolve ==
    \/ \E c \in Chromosomes, p \in RunPositions : SearchForVertexAtPos(c, p)
    \/ \E vs \in NeighbourPairs(location_dict) : SearchForEdge(vs[1], vs[2], "exon")
    \/ \E ps \in RunTranscripts : MatchAllTranscriptVertices("chr1", ps)
    \/ \E p \in RunPositions, t \in {"start", "end"} : \E sj \in RunPositions \ {p} :
          PermissiveVertexSearch("chr1", p, "+", sj, t, 2)
    \/ \E vs \in NeighbourPairs(location_dict) : MatchAllTranscriptEdges(vs, "+")

SpecResolve == InitResolve /\ [][NextResolve]_vars

----------------------------------------------------------------------------
(* What a run of the resolvers shows of the two dicts *)

\* the keys of the rows of the location dict
VertexKeys(ld) == {<<ld[i].chromosome, ld[i].position>> : i \in 1..Len(ld)}

\* the (v1, v2, type) of the rows of the edge dict
EdgeKeys(ed) == {<<r.v1, r.v2, r.edge_type>> : r \in EdgeRows(ed)}

VertexOps == {"search_for_vertex_at_pos", "match_all_transcript_vertices",
              "permissive_vertex_search"}
EdgeOps == {"search_for_edge", "match_all_transcript_edges"}

----------------------------------------------------------------------------
(* C12: in every step of a run the number of vertices in the dict grows by *)
(* exactly the increase of the vertex counter and the number of edges by   *)
(* exactly the increase of the edge counter, so that after any sequence of *)
(* resolutions each count is the number loaded plus its counter's          *)
(* increase; a vertex resolution leaves the edge counter alone and an edge *)
(* resolution the vertex counter; no counter goes down or advances without *)
(* a new element.                                                          *)
C12_CountersStep ==
    /\ Len(location_dict') = Cardinality(VertexKeys(location_dict'))
    /\ Cardinality(VertexKeys(location_dict'))
           - Cardinality(VertexKeys(location_dict))
       = run_info'.vertex - run_info.vertex
    /\ Cardinality(EdgeKeys(edge_dict')) - Cardinality(EdgeKeys(edge_dict))
       = run_info'.edge - run_info.edge
    /\ Cardinality(EdgeKeys(edge_dict')) = Cardinality(DOMAIN edge_dict')
    /\ run_info'.vertex >= run_info.vertex
    /\ run_info'.edge >= run_info.edge
    /\ last'.op \in VertexOps => run_info'.edge = run_info.edge
    /\ last'.op \in EdgeOps => run_info'.vertex = run_info.vertex

C12_CountsFollowCounters == [][C12_CountersStep]_vars

\* a loaded vertex, two vertices and two edges created since: three
\* vertices and two edges, the counters two above their loaded values
C12_Witness ==
    /\ \E i \in 1..Len(location_dict) : location_dict[i].location_ID.kind = "int"
    /\ Len(vertex_log) = 2
    /\ Len(edge_log) = 2
    /\ Cardinality(VertexKeys(location_dict)) = 3
    /\ Cardinality(EdgeKeys(edge_dict)) = 2
    /\ run_info.vertex = MaxCounter + 2
    /\ run_info.edge = 2

----------------------------------------------------------------------------
(* C13: a key of the location dict keeps its row (identifier, position)    *)
(* through every later step, and a key of the edge dict keeps its row;     *)
(* every row a resolver creates has a key the dict did not hold, and no    *)
(* two rows of one call have the same key.                                 *)
RowsAt(ld, key) == {ld[i] : i \in {j \in 1..Len(ld) :
                       <<ld[j].chromosome, ld[j].position>> = key}}

C13_KeptStep ==
    /\ \A key \in VertexKeys(location_dict) :
          RowsAt(location_dict', key) = RowsAt(location_dict, key)
    /\ \A k \in DOMAIN edge_dict :
          k \in DOMAIN edge_dict' /\ edge_dict'[k] = edge_dict[k]
    /\ last'.op \in {"match_all_transcript_vertices", "permissive_vertex_search"} =>
          LET made == last'.out.created
          IN  /\ \A i \in 1..Len(made) :
                    <<made[i].chromosome, made[i].position>>
                        \notin VertexKeys(location_dict)
              /\ \A i \in 1..Len(made), j \in 1..Len(made) :
                    (i # j) => <<made[i].chromosome, made[i].position>>
                                   # <<made[j].chromosome, made[j].position>>
    /\ last'.op = "match_all_transcript_edges" =>
          LET made == last'.out.created
          IN  \A i \in 1..Len(made) :
                  <<made[i].v1, made[i].v2, made[i].edge_type>>
                      \notin EdgeKeys(edge_dict)

C13_NeverReplaced == [][C13_KeptStep]_vars

\* a strict resolution of a position whose vertex the permissive search
\* created earlier in the run, with edges created in between: the vertex is
\* found, nothing is created, the created rows are all still in the dicts
C13_Witness ==
    /\ last.op = "match_all_transcript_vertices"
    /\ Len(last.out.vertex_matches) = 1
    /\ last.out.created = <<>>
    /\ \E i \in 1..Len(vertex_log) :
          /\ vertex_log[i].by = "permissive_vertex_search"
          /\ vertex_log[i].row.location_ID = last.out.vertex_matches[1]
    /\ Len(edge_log) >= 1
    /\ \A i \in 1..Len(vertex_log) :
          RowsAt(location_dict, <<vertex_log[i].row.chromosome,
                                  vertex_log[i].row.position>>)
              = {vertex_log[i].row}
    /\ \A i \in 1..Len(edge_log) : edge_log[i].row \in EdgeRows(edge_dict)

----------------------------------------------------------------------------
(* C14: a call that finds what it looks for changes neither dict nor any   *)
(* counter: search_for_vertex_at_pos and search_for_edge on a key that is  *)
(* there return its row, permissive_vertex_search returning an integer     *)
(* distance (0 or the distance of a candidate), strict matching of         *)
(* positions that all have a vertex, edge matching of pairs that all have  *)
(* an edge; search_for_vertex_at_pos and search_for_edge on a key that is  *)
(* not there return None and change nothing either.                        *)
Untouched ==
    /\ location_dict' = location_dict
    /\ edge_dict' = edge_dict
    /\ run_info' = run_info

C14_FrameStep ==
    /\ last'.op = "search_for_vertex_at_pos" =>
          LET rows == RowsAt(location_dict,
                             <<last'.args.chromosome, last'.args.position>>)
          IN  /\ Untouched
              /\ IF rows = {} THEN last'.out.ret = None ELSE last'.out.ret \in rows
    /\ last'.op = "search_for_edge" =>
          LET rows == {r \in EdgeRows(edge_dict) :
                          <<r.v1, r.v2, r.edge_type>>
                              = <<last'.args.vertex_1, last'.args.vertex_2,
                                  last'.args.edge_type>>}
          IN  /\ Untouched
              /\ IF rows = {} THEN last'.out.ret = None ELSE last'.out.ret \in rows
    /\ (last'.op = "permissive_vertex_search" /\ last'.out.raised = "no"
        /\ last'.out.dist.kind = "int") =>
          /\ Untouched
          /\ last'.out.match \in VertexIDs(location_dict)
    /\ (last'.op = "match_all_transcript_vertices"
        /\ \A i \in 2..(Len(last'.args.positions) - 1) :
              <<last'.args.chromosome, last'.args.positions[i]>>
                  \in VertexKeys(location_dict)) =>
          Untouched
    /\ (last'.op = "match_all_transcript_edges"
        /\ \A i \in 1..(Len(last'.args.vertices) - 1) :
              <<last'.args.vertices[i], last'.args.vertices[i + 1],
                Alternating(i - 1)>> \in EdgeKeys(edge_dict)) =>
          Untouched

C14_HitsChangeNothing == [][C14_FrameStep]_vars

\* a permissive search that returns, at a non-zero distance, a vertex
\* created earlier in the run, after edges were created too
C14_Witness ==
    /\ last.op = "permissive_vertex_search"
    /\ last.out.dist.kind = "int"
    /\ last.out.dist.val # 0
    /\ last.out.created = <<>>
    /\ \E i \in 1..Len(vertex_log) :
          vertex_log[i].row.location_ID = last.out.match
    /\ Len(edge_log) >= 1
    /\ run_info.vertex \in {Len(vertex_log), MaxCounter + Len(vertex_log)}
    /\ run_info.edge = Len(edge_log)

----------------------------------------------------------------------------
(* C16: no identifier create_vertex has returned in the run equals an      *)
(* identifier create_edge has returned in the run.                         *)
C16_UniqueAcrossKinds ==
    \A i \in 1..Len(vertex_log), j \in 1..Len(edge_log) :
        vertex_log[i].row.location_ID # edge_log[j].row.edge_ID


(* C16 as amended: the identifiers minted in a run are unique within a     *)
(* kind only. No two vertices minted carry the same identifier and no two  *)
(* edges do; a vertex and an edge carry the same identifier exactly when   *)
(* they were numbered with the same counter value, both being the run's    *)
(* prefix followed by the number.                                          *)
C16_UniqueWithinKind ==
    /\ \A i \in 1..Len(vertex_log), j \in 1..Len(vertex_log) :
          (i # j) => vertex_log[i].row.location_ID # vertex_log[j].row.location_ID
    /\ \A i \in 1..Len(edge_log), j \in 1..Len(edge_log) :
          (i # j) => edge_log[i].row.edge_ID # edge_log[j].row.edge_ID
    /\ \A i \in 1..Len(vertex_log), j \in 1..Len(edge_log) :
          (vertex_log[i].row.location_ID = edge_log[j].row.edge_ID)
              <=> (vertex_log[i].row.location_ID.n = edge_log[j].row.edge_ID.n)

\* two vertices and two edges minted from counters that started apart, a
\* vertex and an edge with the same identifier among them
C16_Witness ==
    /\ Len(vertex_log) = 2
    /\ Len(edge_log) = 2
    /\ run_info.vertex = MaxCounter + 2
    /\ vertex_log[1].row.location_ID = edge_log[2].row.edge_ID
    /\ vertex_log[1].row.location_ID.kind = "str"

----------------------------------------------------------------------------
----------------------------------------------------------------------------
(* C18: when several candidates lie at the minimal absolute distance,      *)
(* permissive_vertex_search returns the one of them that comes last in     *)
(* the dict's order of insertion, with that candidate's signed distance;   *)
(* the same vertices inserted in another order can give another vertex.    *)
C18_TieStep ==
    (/\ SearchStep
     /\ ValidCall(last'.args)
     /\ StoredAt(location_dict, last'.args.chromosome, last'.args.position) = {}
     /\ Candidates(location_dict, last'.args) # {}) =>
        LET a == last'.args
            cands == Candidates(location_dict, a)
            nearest == {i \in cands : \A j \in cands :
                           Abs(location_dict[i].position - a.position)
                               <= Abs(location_dict[j].position - a.position)}
            latest == CHOOSE i \in nearest : \A j \in nearest : j <= i
        IN  /\ last'.out.match = location_dict[latest].location_ID
            /\ last'.out.dist
                   = IntDist(SignedDistance(a, location_dict[latest].position))

C18_TieLastInserted == [][C18_TieStep]_vars

\* query 95, junction 100, "+", "start", cutoff 10, vertices inserted at 93
\* and then at 97, both at distance 2: the one at 97 is returned, at +2;
\* inserted the other way round the search returns the one at 93, at -2
C18_Witness ==
    /\ last.op = "permissive_vertex_search"
    /\ last.args = [chromosome |-> "chr1", position |-> 95, strand |-> "+",
                    sj_pos |-> 100, pos_type |-> "start", cutoff |-> 10]
    /\ Len(location_dict) = 2
    /\ <<location_dict[1].chromosome, location_dict[1].position>> = <<"chr1", 93>>
    /\ <<location_dict[2].chromosome, location_dict[2].position>> = <<"chr1", 97>>
    /\ last.out.match = location_dict[2].location_ID
    /\ last.out.dist = IntDist(2)
    /\ LET other == permissive_vertex_search("chr1", 95, "+", 100, "start",
                        <<location_dict[2], location_dict[1]>>, 10, run_info)
       IN  /\ other.match = location_dict[1].location_ID
           /\ other.dist = IntDist(-2)

----------------------------------------------------------------------------
(* Two resolvers on the shared dicts and counters, the body of each loop   *)
(* taken in two steps: the lookup (search_for_vertex_at_pos,               *)
(* search_for_edge), and then the test of its result with the creation on  *)
(* None. Nothing in the code holds the dicts between the two steps.        *)
Resolvers == {1, 2}

Busy(r) == \E p \in pending : p.resolver = r

\* vertex_match = search_for_vertex_at_pos(chromosome, position, location_dict)
LookupVertex(r, chromosome, position) ==
    /\ ~Busy(r)
    /\ pending' = pending \cup
           {[resolver |-> r, chromosome |-> chromosome, position |-> position,
             vertex_match |-> search_for_vertex_at_pos(chromosome, position,
                                                       location_dict)]}
    /\ last' = [op |-> "lookup_vertex",
                args |-> [resolver |-> r, chromosome |-> chromosome,
                          position |-> position],
                out |-> <<>>]
    /\ UNCHANGED <<location_dict, edge_dict, run_info, vertex_log, edge_log, first>>

\* if vertex_match == None: vertex_match = create_vertex(...)
CreateVertexIfNone(r) ==
    \E p \in {q \in pending : q.resolver = r /\ "position" \in DOMAIN q} :
    \E made \in {create_vertex(p.chromosome, p.position, run_info, location_dict)} :
    \E created \in {IF p.vertex_match = None THEN <<made.row>> ELSE <<>>} :
        /\ created = <<>> \/ Len(vertex_log) + 1 <= MaxNewVertices
        /\ location_dict' = IF created = <<>> THEN location_dict
                            ELSE made.location_dict
        /\ run_info' = IF created = <<>> THEN run_info ELSE made.run_info
        /\ vertex_log' = vertex_log \o Logged("create_vertex_if_none", created)
        /\ pending' = pending \ {p}
        /\ last' = [op |-> "create_vertex_if_none",
                    args |-> [resolver |-> r, chromosome |-> p.chromosome,
                              position |-> p.position],
                    out |-> [vertex_match |-> IF created = <<>>
                                              THEN p.vertex_match.location_ID
                                              ELSE made.row.location_ID,
                             created |-> created]]
        /\ UNCHANGED <<edge_dict, edge_log, first>>

\* edge_match = search_for_edge(vertex_1, vertex_2, edge_type, edge_dict)
LookupEdge(r, vertex_1, vertex_2, edge_type, strand) ==
    /\ ~Busy(r)
    /\ pending' = pending \cup
           {[resolver |-> r, vertex_1 |-> vertex_1, vertex_2 |-> vertex_2,
             edge_type |-> edge_type, strand |-> strand,
             edge_match |-> search_for_edge(vertex_1, vertex_2, edge_type,
                                            edge_dict)]}
    /\ last' = [op |-> "lookup_edge",
                args |-> [resolver |-> r, vertex_1 |-> vertex_1,
                          vertex_2 |-> vertex_2, edge_type |-> edge_type],
                out |-> <<>>]
    /\ UNCHANGED <<location_dict, edge_dict, run_info, vertex_log, edge_log, first>>

\* if edge_match == None: edge_match = create_edge(...)
CreateEdgeIfNone(r) ==
    \E p \in {q \in pending : q.resolver = r /\ "edge_type" \in DOMAIN q} :
    \E made \in {create_edge(p.vertex_1, p.vertex_2, p.edge_type, p.strand,
                             edge_dict, run_info)} :
    \E created \in {IF p.edge_match = None THEN <<made.row>> ELSE <<>>} :
        /\ created = <<>> \/ Len(edge_log) + 1 <= MaxNewEdges
        /\ edge_dict' = IF created = <<>> THEN edge_dict ELSE made.edge_dict
        /\ run_info' = IF created = <<>> THEN run_info ELSE made.run_info
        /\ edge_log' = edge_log \o Logged("create_edge_if_none", created)
        /\ pending' = pending \ {p}
        /\ last' = [op |-> "create_edge_if_none",
                    args |-> [resolver |-> r, vertex_1 |-> p.vertex_1,
                              vertex_2 |-> p.vertex_2, edge_type |-> p.edge_type],
                    out |-> [edge_match |-> IF created = <<>>
                                            THEN p.edge_match.edge_ID
                                            ELSE made.row.edge_ID,
                             created |-> created]]
        /\ UNCHANGED <<location_dict, vertex_log, first>>

InitConcurrent ==
    InitWith(LoadedIndexes({"chr1"} \X RunPositions, MaxLoaded), {<<>>}, {0}, {0})

NextConcurrent ==
    \/ \E r \in Resolvers, p \in RunPositions : LookupVertex(r, "chr1", p)
    \/ \E r \in Resolvers : CreateVertexIfNone(r)
    \/ \E r \in Resolvers, vs \in NeighbourPairs(location_dict) :
          LookupEdge(r, vs[1], vs[2], "exon", "+")
    \/ \E r \in Resolvers : CreateEdgeIfNone(r)

SpecConcurrent == InitConcurrent /\ [][NextConcurrent]_vars

----------------------------------------------------------------------------
(* C17: with two resolvers running side by side, lookup and creation as    *)
(* separate steps, no key gets two identifiers: the vertices minted for    *)
(* one (chromosome, position) all carry one identifier, and so do the      *)
(* edges minted for one (v1, v2, type).                                    *)
C17_OneIdentifierPerKey ==
    /\ \A i \in 1..Len(vertex_log), j \in 1..Len(vertex_log) :
          (<<vertex_log[i].row.chromosome, vertex_log[i].row.position>>
              = <<vertex_log[j].row.chromosome, vertex_log[j].row.position>>)
          => vertex_log[i].row.location_ID = vertex_log[j].row.location_ID
    /\ \A i \in 1..Len(edge_log), j \in 1..Len(edge_log) :
          (<<edge_log[i].row.v1, edge_log[i].row.v2, edge_log[i].row.edge_type>>
              = <<edge_log[j].row.v1, edge_log[j].row.v2, edge_log[j].row.edge_type>>)
          => edge_log[i].row.edge_ID = edge_log[j].row.edge_ID

====
